---- MODULE Spec2Model ----
(***************************************************************************)
(* Model of the channel-statistics handler of src/main.py,                 *)
(* youtube_channel_stats (GET /api/youtube/channel_stats).                 *)
(*                                                                         *)
(* One handler invocation is followed from the arrival of the request to   *)
(* its response.  The handler blocks at its two requests.get calls, so it  *)
(* is cut into three steps: Invoke (lines 38-63 or 38-89, up to the first  *)
(* outbound call), HandleReply (lines 63-89) and IdReply (lines 89-104).   *)
(* The upstream API is the environment: it answers every call with any     *)
(* status code and, on 200, with any channel list its contract allows      *)
(* (a JSON object whose optional "items" holds channel resources whose     *)
(* counters are string-encoded unsigned integers).                         *)
(*                                                                         *)
(* Python values are tagged records, so that None, "" and 0 stay distinct; *)
(* a str is a sequence of one-character strings; a dict is a function      *)
(* whose domain is the set of keys present.                                *)
(***************************************************************************)
EXTENDS Integers, Sequences, FiniteSets, TLC

VARIABLES
    YOUTUBE_API_KEY,   \* the environment variable read at line 38
    pc,                \* position of the handler: idle, await_handle, await_id, done
    req,               \* the inbound query parameters as the caller sent them
    api_key,           \* local of line 38
    handle,            \* parameter handle
    id,                \* parameter id, reassigned at line 70
    calls,             \* the params of the outbound requests.get calls, in order
    replies,           \* the upstream responses received, in order
    result             \* what the handler returned or raised

vars == <<YOUTUBE_API_KEY, pc, req, api_key, handle, id, calls, replies, result>>

-----------------------------------------------------------------------------
(* Bounds of the model.                                                    *)

\* Longest "items" list the upstream returns.
MaxItems == 2

\* Longest upstream error body, in characters.
MaxBody == 201

-----------------------------------------------------------------------------
(* Python values.                                                          *)

None == [t |-> "None"]
Str(s) == [t |-> "str", v |-> s]
Num(n) == [t |-> "int", v |-> n]
\* A string literal of the source, kept whole.
Lit(s) == [t |-> "lit", v |-> s]
List(s) == [t |-> "list", v |-> s]

EmptyDict == [k \in {} |-> None]

\* dict.get(k, default)
Get(d, k, default) == IF k \in DOMAIN d THEN d[k] ELSE default

\* Python truth value of an optional str or list: None, "" and [] are false.
Truthy(x) == x.t \in {"str", "list"} /\ Len(x.v) > 0

Min(a, b) == IF a <= b THEN a ELSE b

DigitValue(c) ==
    CASE c = "0" -> 0 [] c = "1" -> 1 [] c = "2" -> 2 [] c = "3" -> 3
      [] c = "4" -> 4 [] c = "5" -> 5 [] c = "6" -> 6 [] c = "7" -> 7
      [] c = "8" -> 8 [] c = "9" -> 9

\* int() of a string of decimal digits, read left to right.
RECURSIVE ParseDigits(_, _)
ParseDigits(s, acc) ==
    IF s = <<>> THEN acc
    ELSE ParseDigits(Tail(s), 10 * acc + DigitValue(Head(s)))

\* int(x): an int is itself, a str is parsed.
PyInt(x) == IF x.t = "int" THEN x ELSE Num(ParseDigits(x.v, 0))

-----------------------------------------------------------------------------
(* What the handler returns or raises.                                     *)

NoResult == [kind |-> "none"]
Return(body) == [kind |-> "return", body |-> body]
HTTPException(status_code, detail) ==
    [kind |-> "HTTPException", status_code |-> status_code, detail |-> detail]
\* An exception the handler does not catch (FastAPI answers 500).
Unhandled(exc) == [kind |-> "unhandled", exc |-> exc]

-----------------------------------------------------------------------------
(* The conditions and expressions of youtube_channel_stats.                *)

\* Variant of line 39: `if api_key is None`, an empty key counts as configured.
Unconfigured_NoneOnly(k) == k = None
\* line 39: if not api_key
Unconfigured(k) == ~Truthy(k)

\* lines 40-48
UnconfiguredResponse(h, i) ==
    Return([status |-> Lit("unconfigured"),
            message |-> Lit("YOUTUBE_API_KEY not set on server"),
            subscriberCount |-> None,
            viewCount |-> None,
            videoCount |-> None,
            channelId |-> i,
            handle |-> h])

\* Variants of line 50: `is None` tests in place of truth values.
MissingBoth_NoneOnly(h, i) == h = None /\ i = None
MissingBoth_HandleNone(h, i) == h = None /\ ~Truthy(i)
\* line 50: if not handle and not id
MissingBoth(h, i) == ~Truthy(h) /\ ~Truthy(i)

\* line 51
MissingBothError == HTTPException(400, Lit("Provide either 'handle' or 'id'"))

\* lines 53-56
params(k) == [part |-> Lit("statistics,snippet,customUrl"), key |-> k]

\* line 61: params | {"forHandle": handle}
params_with_handle(k, h) == params(k) @@ ("forHandle" :> h)

\* line 88: params | {"id": id}
params_with_id(k, i) == params(k) @@ ("id" :> i)

\* lines 64 and 90: if r.status_code != 200
UpstreamFailed(r) == r.status_code # 200

\* Variant of lines 65 and 91: r.text without the slice.
ErrorDetail_Whole(text) == Str(text)
\* lines 65 and 91: r.text[:200]
ErrorDetail(text) == Str(SubSeq(text, 1, Min(Len(text), 200)))

\* lines 65 and 91
UpstreamError(r) == HTTPException(r.status_code, ErrorDetail(r.text))

\* Variant of lines 67 and 93: `if "items" not in data`.
NoItems_KeyOnly(data) == "items" \notin DOMAIN data
\* lines 67 and 93: if not data.get("items")
NoItems(data) == ~Truthy(Get(data, "items", None))

\* Variants of line 69: startswith("U"), and a fallback for every handle.
StartsWithUC_OnlyU(h) == Len(h.v) >= 1 /\ h.v[1] = "U"
StartsWithUC_Always(h) == TRUE
\* line 69: handle.startswith("UC")
StartsWithUC(h) == Len(h.v) >= 2 /\ h.v[1] = "U" /\ h.v[2] = "C"

\* Variants of line 70: `id = id or handle`, and no assignment.
FallbackId_KeepSupplied(h, i) == IF Truthy(i) THEN i ELSE h
FallbackId_Unchanged(h, i) == i
\* line 70: id = handle
FallbackId(h, i) == h

\* line 72
HandleNotFound == HTTPException(404, Lit("Channel not found for handle"))

\* line 94
IdNotFound == HTTPException(404, Lit("Channel not found for id"))

\* line 106
InvalidRequest == HTTPException(400, Lit("Invalid request"))

\* lines 74 and 95: data["items"][0] raises KeyError without the key, TypeError
\* on None and IndexError on an empty list; otherwise it is the first item.
Subscriptable(data) ==
    /\ "items" \in DOMAIN data
    /\ data["items"].t = "list"
    /\ Len(data["items"].v) >= 1
FirstItem(data) == data["items"].v[1]

\* Variant of lines 80-82: `else 0` in place of `else None`.
HandleOkResponse_ZeroDefault(item) ==
    LET stats == Get(item, "statistics", EmptyDict) IN
    Return([status |-> Lit("ok"),
            channelId |-> Get(item, "id", None),
            title |-> Get(Get(item, "snippet", EmptyDict), "title", None),
            subscriberCount |->
                IF Get(stats, "subscriberCount", None) # None
                THEN PyInt(Get(stats, "subscriberCount", Num(0))) ELSE Num(0),
            viewCount |->
                IF Get(stats, "viewCount", None) # None
                THEN PyInt(Get(stats, "viewCount", Num(0))) ELSE Num(0),
            videoCount |->
                IF Get(stats, "videoCount", None) # None
                THEN PyInt(Get(stats, "videoCount", Num(0))) ELSE Num(0)])
\* lines 74-83: the response of the handle path
HandleOkResponse(item) ==
    LET stats == Get(item, "statistics", EmptyDict) IN
    Return([status |-> Lit("ok"),
            channelId |-> Get(item, "id", None),
            title |-> Get(Get(item, "snippet", EmptyDict), "title", None),
            subscriberCount |->
                IF Get(stats, "subscriberCount", None) # None
                THEN PyInt(Get(stats, "subscriberCount", Num(0))) ELSE None,
            viewCount |->
                IF Get(stats, "viewCount", None) # None
                THEN PyInt(Get(stats, "viewCount", Num(0))) ELSE None,
            videoCount |->
                IF Get(stats, "videoCount", None) # None
                THEN PyInt(Get(stats, "videoCount", Num(0))) ELSE None])

\* lines 95-104: the response of the ID path
IdOkResponse(item) ==
    LET stats == Get(item, "statistics", EmptyDict) IN
    Return([status |-> Lit("ok"),
            channelId |-> Get(item, "id", None),
            title |-> Get(Get(item, "snippet", EmptyDict), "title", None),
            subscriberCount |->
                IF Get(stats, "subscriberCount", None) # None
                THEN PyInt(Get(stats, "subscriberCount", Num(0))) ELSE None,
            viewCount |->
                IF Get(stats, "viewCount", None) # None
                THEN PyInt(Get(stats, "viewCount", Num(0))) ELSE None,
            videoCount |->
                IF Get(stats, "videoCount", None) # None
                THEN PyInt(Get(stats, "videoCount", Num(0))) ELSE None])

-----------------------------------------------------------------------------
(* The inputs: the environment, the caller and the upstream API.           *)

\* os.getenv gives None for an unset variable, else its value.
Keys == {None, Str(<<>>), Str(<<"k">>)}

\* The handle query parameter: absent, empty, or a string.
Handles ==
    {None, Str(<<>>), Str(<<"@", "a">>), Str(<<"U">>), Str(<<"U", "c">>),
     Str(<<"U", "C">>), Str(<<"U", "C", "a">>), Str(<<"a", "U", "C">>)}

\* The id query parameter.
Ids == {None, Str(<<>>), Str(<<"U", "C", "a">>), Str(<<"U", "C", "b">>)}

\* Upstream statuses other than 200.
ErrorStatuses == {204, 400, 403, 404, 500}

BodyChars == <<"e", "r", "x">>
\* An upstream error body of n characters.
Body(n) == [j \in 1..n |-> BodyChars[(j % 3) + 1]]
Bodies == {Body(n) : n \in {0, 1, 199, 200, MaxBody}}

CounterKeys == {"subscriberCount", "viewCount", "videoCount"}
\* A counter of the upstream item: JSON null or an unsigned integer as a string.
CounterValues == {None, Str(<<"0">>), Str(<<"4", "2">>)}
\* The "statistics" object: any subset of the counters may be absent.
StatsDicts == UNION {[ks -> CounterValues] : ks \in SUBSET CounterKeys}

Opt(k, present, v) == IF present THEN k :> v ELSE EmptyDict

FullStats == [k \in CounterKeys |-> Str(<<"4", "2">>)]
Snippets == {EmptyDict, [title |-> Str(<<"T">>)]}
\* The channel resources an "items" list may start with.
Items ==
    {("id" :> Str(<<"U", "C", "1">>)) @@ ("snippet" :> [title |-> Str(<<"T">>)])
        @@ ("statistics" :> st) : st \in StatsDicts}
    \cup
    {Opt("id", hasId, Str(<<"U", "C", "1">>)) @@ Opt("snippet", hasSn, sn)
        @@ Opt("statistics", hasSt, FullStats) :
        hasId \in BOOLEAN, hasSn \in BOOLEAN, hasSt \in BOOLEAN, sn \in Snippets}

\* The channel resources that may follow the first one.
OtherItems ==
    {[id |-> Str(<<"U", "C", "9">>), snippet |-> [title |-> Str(<<"Z">>)],
      statistics |-> [k \in CounterKeys |-> Str(<<"7">>)]],
     [id |-> Str(<<"U", "C", "8">>)]}

ItemTails == UNION {[1..n -> OtherItems] : n \in 0..(MaxItems - 1)}
ItemLists == {<<>>} \cup {<<first>> \o rest : first \in Items, rest \in ItemTails}

\* The JSON object of a 200 response: "items" absent, null or a list.
Datas ==
    {[kind |-> Lit("youtube#channelListResponse")]}
    \cup {[kind |-> Lit("youtube#channelListResponse"), items |-> None]}
    \cup {[kind |-> Lit("youtube#channelListResponse"), items |-> List(l)] :
            l \in ItemLists}

\* requests.Response: status_code, text and json().  The handler reads text
\* only of a failed response and json() only of a 200 response.
Responses ==
    {[status_code |-> 200, text |-> <<>>, json |-> d] : d \in Datas}
    \cup {[status_code |-> s, text |-> b, json |-> None] :
            s \in ErrorStatuses, b \in Bodies}

-----------------------------------------------------------------------------
(* The handler.                                                            *)

Init ==
    /\ YOUTUBE_API_KEY \in Keys
    /\ pc = "idle"
    /\ req = [handle |-> None, id |-> None]
    /\ api_key = None
    /\ handle = None
    /\ id = None
    /\ calls = <<>>
    /\ replies = <<>>
    /\ result = NoResult

\* lines 85-106: the ID path, from `if id:` to the outbound call of line 89,
\* or the trailing raise of line 106.
IdPath(k, i) ==
    IF Truthy(i)
    THEN /\ calls' = Append(calls, params_with_id(k, i))
         /\ pc' = "await_id"
         /\ result' = NoResult
    ELSE /\ result' = InvalidRequest
         /\ pc' = "done"
         /\ UNCHANGED calls

\* lines 38-63 (or 38-89 without a handle): from the arrival of the request
\* to the first outbound call, or to the response when there is none.
Invoke(h, i) ==
    /\ pc = "idle"
    /\ req' = [handle |-> h, id |-> i]
    /\ handle' = h
    /\ id' = i
    /\ api_key' = YOUTUBE_API_KEY
    /\ UNCHANGED <<YOUTUBE_API_KEY, replies>>
    /\ IF Unconfigured(YOUTUBE_API_KEY)
       THEN /\ result' = UnconfiguredResponse(h, i)
            /\ pc' = "done"
            /\ UNCHANGED calls
       ELSE IF MissingBoth(h, i)
       THEN /\ result' = MissingBothError
            /\ pc' = "done"
            /\ UNCHANGED calls
       ELSE IF Truthy(h)
       THEN /\ calls' = Append(calls, params_with_handle(YOUTUBE_API_KEY, h))
            /\ pc' = "await_handle"
            /\ result' = NoResult
       ELSE IdPath(YOUTUBE_API_KEY, i)

\* lines 63-89: the handle lookup returns r.
HandleReply(r) ==
    /\ pc = "await_handle"
    /\ replies' = Append(replies, r)
    /\ UNCHANGED <<YOUTUBE_API_KEY, req, api_key, handle>>
    /\ IF UpstreamFailed(r)
       THEN /\ result' = UpstreamError(r)
            /\ pc' = "done"
            /\ UNCHANGED <<id, calls>>
       ELSE IF NoItems(r.json)
       THEN IF StartsWithUC(handle)
            THEN /\ id' = FallbackId(handle, id)
                 /\ IdPath(api_key, FallbackId(handle, id))
            ELSE /\ result' = HandleNotFound
                 /\ pc' = "done"
                 /\ UNCHANGED <<id, calls>>
       ELSE /\ result' = IF Subscriptable(r.json)
                         THEN HandleOkResponse(FirstItem(r.json))
                         ELSE Unhandled("data['items'][0]")
            /\ pc' = "done"
            /\ UNCHANGED <<id, calls>>

\* lines 89-104: the identifier lookup returns r.
IdReply(r) ==
    /\ pc = "await_id"
    /\ replies' = Append(replies, r)
    /\ UNCHANGED <<YOUTUBE_API_KEY, req, api_key, handle, id, calls>>
    /\ pc' = "done"
    /\ IF UpstreamFailed(r)
       THEN result' = UpstreamError(r)
       ELSE IF NoItems(r.json)
       THEN result' = IdNotFound
       ELSE result' = IF Subscriptable(r.json)
                      THEN IdOkResponse(FirstItem(r.json))
                      ELSE Unhandled("data['items'][0]")

\* The response is sent; the handler keeps nothing for the next request.
Respond ==
    /\ pc = "done"
    /\ pc' = "idle"
    /\ req' = [handle |-> None, id |-> None]
    /\ api_key' = None
    /\ handle' = None
    /\ id' = None
    /\ calls' = <<>>
    /\ replies' = <<>>
    /\ result' = NoResult
    /\ UNCHANGED YOUTUBE_API_KEY

Next ==
    \/ \E h \in Handles, i \in Ids : Invoke(h, i)
    \/ \E r \in Responses : HandleReply(r)
    \/ \E r \in Responses : IdReply(r)
    \/ Respond

Spec == Init /\ [][Next]_vars

-----------------------------------------------------------------------------
(* Vocabulary of the properties, stated on the observable history (req,    *)
(* calls, replies, result) and not through the handler's own conditions.   *)

\* An API key is configured: the variable is set and not empty.
KeyConfigured == YOUTUBE_API_KEY # None /\ YOUTUBE_API_KEY.v # <<>>

\* A query parameter that is not set: absent or empty.
Absent(x) == x = None \/ x = Str(<<>>)

IsHandleLookup(c) == "forHandle" \in DOMAIN c /\ "id" \notin DOMAIN c
IsIdLookup(c) == "id" \in DOMAIN c /\ "forHandle" \notin DOMAIN c

\* A success answer with zero items.
ZeroItems(r) ==
    /\ r.status_code = 200
    /\ \/ "items" \notin DOMAIN r.json
       \/ r.json.items = None
       \/ r.json.items = List(<<>>)
\* A success answer with at least one item.
HasItems(r) == r.status_code = 200 /\ ~ZeroItems(r)

HasPrefixUC(s) == Len(s) >= 2 /\ SubSeq(s, 1, 2) = <<"U", "C">>

Prefix(s, n) == [j \in 1..Min(n, Len(s)) |-> s[j]]

Digits == <<"0", "1", "2", "3", "4", "5", "6", "7", "8", "9">>
\* The decimal numeral of n < 100.
Decimal(n) ==
    IF n < 10 THEN <<Digits[n + 1]>>
    ELSE <<Digits[(n \div 10) + 1], Digits[(n % 10) + 1]>>
\* The integer a counter string denotes.
IntegerValue(s) == CHOOSE n \in 0..99 : Decimal(n) = s

\* A counter of the result: the integer of the upstream string, null when the
\* field is absent or null.
ExpectedCount(item, k) ==
    IF /\ "statistics" \in DOMAIN item
       /\ k \in DOMAIN item.statistics
       /\ item.statistics[k] # None
    THEN Num(IntegerValue(item.statistics[k].v))
    ELSE None

\* The status=ok result that reflects an upstream item.
ExpectedOk(item) ==
    [kind |-> "return",
     body |-> [status |-> Lit("ok"),
               channelId |-> IF "id" \in DOMAIN item THEN item.id ELSE None,
               title |-> IF "snippet" \in DOMAIN item
                            /\ "title" \in DOMAIN item.snippet
                         THEN item.snippet.title ELSE None,
               subscriberCount |-> ExpectedCount(item, "subscriberCount"),
               viewCount |-> ExpectedCount(item, "viewCount"),
               videoCount |-> ExpectedCount(item, "videoCount")]]

\* The error that mirrors a failed upstream answer.
ExpectedUpstreamError(r) ==
    [kind |-> "HTTPException", status_code |-> r.status_code,
     detail |-> Str(Prefix(r.text, 200))]

NotFound(what) ==
    [kind |-> "HTTPException", status_code |-> 404,
     detail |-> Lit(what)]

IsOk == result.kind = "return" /\ result.body.status = Lit("ok")

LastReply == replies[Len(replies)]

\* The handle lookup came back with success and zero items.
HandleUnresolved ==
    /\ Len(replies) >= 1
    /\ IsHandleLookup(calls[1])
    /\ ZeroItems(replies[1])

-----------------------------------------------------------------------------
(* C1: with no API key configured, every request (any handle, any id, both *)
(* absent included) gets the normal response status="unconfigured" with    *)
(* null counters and channelId/handle echoing the inputs, and no outbound  *)
(* call is issued; the missing-key check comes before the 400 check.       *)
C1_UnconfiguredAlways ==
    ~KeyConfigured =>
        /\ calls = <<>>
        /\ pc \in {"idle", "done"}
        /\ pc = "done" =>
            /\ result.kind = "return"
            /\ result.body.status = Lit("unconfigured")
            /\ result.body.subscriberCount = None
            /\ result.body.viewCount = None
            /\ result.body.videoCount = None
            /\ result.body.channelId = req.id
            /\ result.body.handle = req.handle

C1_Witness ==
    /\ pc = "done"
    /\ YOUTUBE_API_KEY = Str(<<>>)
    /\ req.handle = None
    /\ req.id = None
    /\ result.kind = "return"
    /\ result.body.status = Lit("unconfigured")

(* C2: with a key configured, a request with neither handle nor id set     *)
(* fails with the 400 of lines 50-51 and no upstream call is issued.       *)
C2_MissingBothIs400 ==
    (KeyConfigured /\ pc # "idle" /\ Absent(req.handle) /\ Absent(req.id)) =>
        /\ pc = "done"
        /\ calls = <<>>
        /\ result = [kind |-> "HTTPException", status_code |-> 400,
                     detail |-> Lit("Provide either 'handle' or 'id'")]

C2_Witness ==
    /\ pc = "done"
    /\ KeyConfigured
    /\ req.handle = Str(<<>>)
    /\ req.id = Str(<<>>)
    /\ result.kind = "HTTPException"
    /\ result.status_code = 400

\* The outcome of an identifier lookup answered by r.
IdLookupOutcome(r) ==
    IF r.status_code # 200 THEN ExpectedUpstreamError(r)
    ELSE IF ZeroItems(r) THEN NotFound("Channel not found for id")
    ELSE ExpectedOk(r.json.items.v[1])

(* C3: when the handle lookup succeeds with zero items and the handle      *)
(* starts with "UC", a second call is issued, an identifier lookup whose   *)
(* id is the handle string, and the request ends as that lookup does: ok   *)
(* from its first item, 404 on zero items, or the upstream error.          *)
C3_FallbackIsIdLookupOfHandle ==
    (HandleUnresolved /\ HasPrefixUC(req.handle.v)) =>
        /\ Len(calls) = 2
        /\ IsIdLookup(calls[2])
        /\ calls[2].id = req.handle
        /\ pc \in {"await_id", "done"}
        /\ pc = "done" =>
            /\ Len(replies) = 2
            /\ result = IdLookupOutcome(replies[2])

C3_Witness ==
    /\ pc = "done"
    /\ HandleUnresolved
    /\ HasPrefixUC(req.handle.v)
    /\ Len(replies) = 2
    /\ HasItems(replies[2])
    /\ IsOk

(* C4: when the handle lookup succeeds with zero items and the handle does *)
(* not start with "UC", the request ends with the 404 of line 72 after     *)
(* exactly one outbound call and no identifier lookup, whether or not the  *)
(* caller also supplied an id.                                             *)
C4_NonUCNotFound ==
    (HandleUnresolved /\ ~HasPrefixUC(req.handle.v)) =>
        /\ pc = "done"
        /\ Len(calls) = 1
        /\ \A j \in 1..Len(calls) : ~IsIdLookup(calls[j])
        /\ result = NotFound("Channel not found for handle")

C4_Witness ==
    /\ pc = "done"
    /\ HandleUnresolved
    /\ req.handle = Str(<<"U", "c">>)
    /\ req.id = Str(<<"U", "C", "b">>)
    /\ result.kind = "HTTPException"
    /\ result.status_code = 404

(* C5: a request issues at most two outbound calls, one at a time; a       *)
(* second call exists only after the first, a handle lookup, came back     *)
(* with success and zero items for a handle starting with "UC", and it     *)
(* differs from the first; every other request that reaches the upstream   *)
(* issues exactly one call.                                                *)
C5_AtMostTwoSequentialCalls ==
    /\ Len(calls) <= 2
    /\ Len(replies) <= Len(calls)
    /\ Len(calls) <= Len(replies) + 1
    /\ Len(calls) = 2 =>
        /\ HandleUnresolved
        /\ HasPrefixUC(req.handle.v)
        /\ calls[2] # calls[1]
    /\ ( /\ pc = "done"
         /\ KeyConfigured
         /\ ~(Absent(req.handle) /\ Absent(req.id))
         /\ ~(HandleUnresolved /\ HasPrefixUC(req.handle.v)) ) =>
        Len(calls) = 1

C5_Witness ==
    /\ pc = "done"
    /\ Len(calls) = 2
    /\ Len(replies) = 2
    /\ IsHandleLookup(calls[1])
    /\ IsIdLookup(calls[2])

(* C6: an upstream answer with a status other than 200, to the handle      *)
(* lookup, the direct identifier lookup or the fallback identifier lookup, *)
(* ends the request with an error carrying that status code and the first  *)
(* at most 200 characters of the body, and no further call is issued.      *)
C6_UpstreamErrorMirrored ==
    \A j \in 1..Len(replies) :
        replies[j].status_code # 200 =>
            /\ pc = "done"
            /\ j = Len(replies)
            /\ Len(calls) = j
            /\ result = ExpectedUpstreamError(replies[j])
            /\ Len(result.detail.v) <= 200

C6_Witness ==
    /\ pc = "done"
    /\ Len(replies) = 2
    /\ replies[2].status_code = 403
    /\ Len(replies[2].text) > 200
    /\ result.kind = "HTTPException"
    /\ result.status_code = 403
    /\ Len(result.detail.v) = 200

(* C7: on a successful lookup, by handle or by identifier, the result has  *)
(* status="ok" and its channelId, title and counters are those of the      *)
(* first upstream item: a counter is the integer of the upstream string    *)
(* ("0" gives 0) and null, never 0, when the field is absent or null.      *)
C7_OkReflectsFirstItem ==
    (Len(replies) >= 1 /\ HasItems(LastReply)) =>
        /\ pc = "done"
        /\ result = ExpectedOk(LastReply.json.items.v[1])
        /\ \A k \in CounterKeys :
            LET item == LastReply.json.items.v[1] IN
            ("statistics" \notin DOMAIN item \/ k \notin DOMAIN item.statistics)
                => result.body[k] = None

C7_Witness ==
    /\ pc = "done"
    /\ Len(calls) = 1
    /\ IsIdLookup(calls[1])
    /\ HasItems(LastReply)
    /\ Len(LastReply.json.items.v) = MaxItems
    /\ "statistics" \in DOMAIN LastReply.json.items.v[1]
    /\ LastReply.json.items.v[1].statistics =
         [subscriberCount |-> Str(<<"0">>), videoCount |-> Str(<<"4", "2">>)]
    /\ result.body.subscriberCount = Num(0)
    /\ result.body.viewCount = None
    /\ result.body.videoCount = Num(42)

(* C8: an identifier lookup, direct or reached through the UC fallback,    *)
(* that succeeds with zero items ends with the 404 of line 94; with one or *)
(* more items it ends with status ok built from the first item; and no     *)
(* status="ok" response exists unless some upstream answer was a success   *)
(* with at least one item.                                                 *)
C8_IdLookupOutcome ==
    /\ (Len(replies) >= 1 /\ IsIdLookup(calls[Len(replies)])) =>
        /\ ZeroItems(LastReply) =>
            /\ pc = "done"
            /\ result = NotFound("Channel not found for id")
        /\ HasItems(LastReply) =>
            /\ pc = "done"
            /\ IsOk
            /\ result = ExpectedOk(LastReply.json.items.v[1])
    /\ (result.kind = "return" /\ result.body.status = Lit("ok")) =>
        \E j \in 1..Len(replies) : HasItems(replies[j])

C8_Witness ==
    /\ pc = "done"
    /\ Len(calls) = 2
    /\ IsIdLookup(calls[2])
    /\ Len(replies) = 2
    /\ replies[2].json = [kind |-> Lit("youtube#channelListResponse"),
                          items |-> List(<<>>)]
    /\ result = NotFound("Channel not found for id")

(* C9: with a key configured and a non-empty handle, the first outbound    *)
(* call is the handle lookup of that handle and every identifier lookup    *)
(* carries the handle string as its id, never the id the caller supplied;  *)
(* a resolved handle ends the request after that one call.  The id the     *)
(* caller supplied goes upstream only when the handle is absent or empty.  *)
C9_HandlePreferred ==
    /\ (KeyConfigured /\ pc # "idle" /\ ~Absent(req.handle)) =>
        /\ Len(calls) >= 1
        /\ IsHandleLookup(calls[1])
        /\ calls[1].forHandle = req.handle
        /\ \A j \in 1..Len(calls) :
            IsIdLookup(calls[j]) => calls[j].id = req.handle
        /\ (Len(replies) >= 1 /\ HasItems(replies[1])) => Len(calls) = 1
    /\ \A j \in 1..Len(calls) :
        (IsIdLookup(calls[j]) /\ calls[j].id # req.handle) =>
            /\ Absent(req.handle)
            /\ calls[j].id = req.id

C9_Witness ==
    /\ pc = "done"
    /\ req.handle = Str(<<"U", "C">>)
    /\ req.id = Str(<<"U", "C", "b">>)
    /\ Len(calls) = 2
    /\ calls[2].id = Str(<<"U", "C">>)

\* The five outcomes of a request.
OutcomeUnconfigured ==
    result.kind = "return" /\ result.body.status = Lit("unconfigured")
OutcomeMissingBoth ==
    result = [kind |-> "HTTPException", status_code |-> 400,
              detail |-> Lit("Provide either 'handle' or 'id'")]
OutcomeUpstreamError ==
    /\ Len(replies) >= 1
    /\ LastReply.status_code # 200
    /\ result = ExpectedUpstreamError(LastReply)
OutcomeNotFound ==
    \/ result = NotFound("Channel not found for handle")
    \/ result = NotFound("Channel not found for id")
OutcomeOk == IsOk

Outcomes ==
    {o \in {"unconfigured", "missing", "upstream", "not_found", "ok"} :
        \/ o = "unconfigured" /\ OutcomeUnconfigured
        \/ o = "missing" /\ OutcomeMissingBoth
        \/ o = "upstream" /\ OutcomeUpstreamError
        \/ o = "not_found" /\ OutcomeNotFound
        \/ o = "ok" /\ OutcomeOk}

(* C10: every request whose upstream calls return ends in exactly one of   *)
(* five outcomes (unconfigured, the 400 of line 51, the mirrored upstream  *)
(* error, 404, ok); the 400 "Invalid request" of line 106 is never raised, *)
(* because the id is non-empty whenever the ID path is entered.            *)
C10_FiveOutcomes ==
    /\ pc = "done" =>
        /\ Cardinality(Outcomes) = 1
        /\ result # [kind |-> "HTTPException", status_code |-> 400,
                     detail |-> Lit("Invalid request")]
    /\ pc = "await_id" => ~Absent(id)
    /\ pc \in {"idle", "await_handle", "await_id"} => result = [kind |-> "none"]

C10_Witness ==
    /\ pc = "done"
    /\ Absent(req.id)
    /\ Len(calls) = 2
    /\ IsIdLookup(calls[2])
    /\ id = req.handle
    /\ OutcomeNotFound

====
